---- MODULE Spec2Model ----
(***************************************************************************)
(* Model of fgrzl/linearize: the operation-tagged Diff of                  *)
(* src/linearize_diff.go and the copy-returning Merge of                   *)
(* src/unnamed/part_002, over the generic tree produced by Linearize       *)
(* (src/unnamed/part_004).                                                 *)
(*                                                                         *)
(* A Go value of static type `any` is a record with a kind field:          *)
(*   nil             the nil interface                                     *)
(*   scalar          a comparable primitive (string, int32, bool, ...)     *)
(*   object          LinearizedObject  map[int32]any                       *)
(*   slice           LinearizedSlice   map[int32]any  (index -> element)   *)
(*   map             LinearizedMap     map[int32][2]any (index -> pair)    *)
(*   pair            [2]any{key, value}, the element type of LinearizedMap *)
(* A Go map is a TLA+ function whose DOMAIN is the set of present keys.    *)
(* A runtime panic is an outcome of its own, never a returned error.       *)
(***************************************************************************)
EXTENDS Integers, FiniteSets, Sequences, Bags, TLC

VARIABLES pc, previous, latest, dres, mask, current, diff, mres, mres2,
          unlinearized, diff2, history, linearized

vars == <<pc, previous, latest, dres, mask, current, diff, mres, mres2,
         unlinearized, diff2, history, linearized>>

(***************************************************************************)
(* The explored input space: the longest repeated field, and the scalar    *)
(* values, field numbers and map keys the messages are built from.         *)
(***************************************************************************)
MaxLen == 2

ScalarValues == {1, 2}

FieldIds == {1, 2}

MapKeys == {1, 2}

(***************************************************************************)
(* Values.                                                                 *)
(***************************************************************************)
NilValue == [kind |-> "nil"]

Scalar(v) == [kind |-> "scalar", v |-> v]

LinearizedObject(m) == [kind |-> "object", m |-> m]

LinearizedSlice(m) == [kind |-> "slice", m |-> m]

LinearizedMap(m) == [kind |-> "map", m |-> m]

Pair(k, v) == [kind |-> "pair", k |-> k, v |-> v]

EmptyPair == Pair(NilValue, NilValue)

EmptyFn == [k \in {} |-> NilValue]

IsComposite(v) == v.kind \in {"object", "slice", "map"}

\* m[key] of a Go map: the zero value (nil interface) when the key is absent.
Lookup(m, key) == IF key \in DOMAIN m THEN m[key] ELSE NilValue

(***************************************************************************)
(* UpdateMask{Values map[int32]*UpdateMaskValue}; UpdateMaskValue{Op,      *)
(* Masks *UpdateMask}.  NilMask is the nil *UpdateMask.                    *)
(***************************************************************************)
UpdateMaskOperation_ADD == "ADD"

UpdateMaskOperation_REMOVE == "REMOVE"

UpdateMaskOperation_UPDATE == "UPDATE"

NilMask == [isNil |-> TRUE]

UpdateMask(values) == [isNil |-> FALSE, Values |-> values]

UpdateMaskValue(op, masks) == [Op |-> op, Masks |-> masks]

(***************************************************************************)
(* Go's == on two interface values, as in `prevValue != latestValue`.      *)
(* Different dynamic types: unequal.  Same uncomparable dynamic type (the  *)
(* three map types): runtime panic.  Arrays are compared element by        *)
(* element in index order, stopping at the first difference.               *)
(***************************************************************************)
RECURSIVE GoEqual(_, _)
GoEqual(a, b) ==
    IF a.kind # b.kind THEN "ne"
    ELSE IF a.kind = "nil" THEN "eq"
    ELSE IF a.kind = "scalar" THEN (IF a.v = b.v THEN "eq" ELSE "ne")
    ELSE IF a.kind = "pair" THEN
        IF a.k.kind # b.k.kind \/ a.v.kind # b.v.kind THEN "ne"
        ELSE LET ek == GoEqual(a.k, b.k)
             IN  IF ek # "eq" THEN ek ELSE GoEqual(a.v, b.v)
    ELSE "panic"

max(a, b) == IF a > b THEN a ELSE b

\* what compareValues returns (panic: the call did not return)
CompareResult(panic, changed, before, after, nestedMask) ==
    [panic |-> panic, changed |-> changed, nestedBefore |-> before,
     nestedAfter |-> after, nestedMask |-> nestedMask]

NoChange == CompareResult(FALSE, FALSE, NilValue, NilValue, NilMask)

(***************************************************************************)
(* compareValues, src/linearize_diff.go:56-244.                            *)
(***************************************************************************)
RECURSIVE compareValues(_, _)
compareValues(prevValue, latestValue) ==
    IF prevValue.kind = "object" THEN
        IF latestValue.kind = "object" THEN
            LET prev == prevValue.m
                lat == latestValue.m
                both == DOMAIN prev \cap DOMAIN lat
                removed == DOMAIN prev \ DOMAIN lat
                added == DOMAIN lat \ DOMAIN prev
                elem == [key \in both |-> compareValues(prev[key], lat[key])]
                chg == {key \in both : elem[key].changed}
                all == DOMAIN prev \cup DOMAIN lat
                nestedBefore == [key \in all |->
                    IF key \in removed THEN prev[key]
                    ELSE IF key \in added THEN NilValue
                    ELSE IF key \in chg THEN elem[key].nestedBefore
                    ELSE prev[key]]
                nestedAfter == [key \in all |->
                    IF key \in removed THEN NilValue
                    ELSE IF key \in added THEN lat[key]
                    ELSE IF key \in chg THEN elem[key].nestedAfter
                    ELSE lat[key]]
                values == [key \in removed \cup added \cup chg |->
                    IF key \in removed
                    THEN UpdateMaskValue(UpdateMaskOperation_REMOVE, NilMask)
                    ELSE IF key \in added
                    THEN UpdateMaskValue(UpdateMaskOperation_ADD, NilMask)
                    ELSE UpdateMaskValue(UpdateMaskOperation_UPDATE,
                                         elem[key].nestedMask)]
            IN  CompareResult(\E key \in both : elem[key].panic,
                              removed \cup added \cup chg # {},
                              LinearizedObject(nestedBefore),
                              LinearizedObject(nestedAfter),
                              UpdateMask(values))
        ELSE NoChange
    ELSE IF prevValue.kind = "slice" THEN
        IF latestValue.kind = "slice" THEN
            LET prev == prevValue.m
                lat == latestValue.m
                prevLen == Cardinality(DOMAIN prev)
                latestLen == Cardinality(DOMAIN lat)
                maxLen == max(prevLen, latestLen)
                idx == 0 .. (maxLen - 1)
                prevElem(i) == IF i < prevLen THEN Lookup(prev, i) ELSE NilValue
                latestElem(i) == IF i < latestLen THEN Lookup(lat, i) ELSE NilValue
                elem == [i \in idx |-> compareValues(prevElem(i), latestElem(i))]
                chg == {i \in idx : elem[i].changed}
                rem == {i \in chg : latestLen < prevLen /\ i >= prevLen - 1}
                mergedBefore == [i \in idx |-> elem[i].nestedBefore]
                mergedAfter == [i \in chg \ rem |-> elem[i].nestedAfter]
                values == [i \in chg |->
                    IF i \in rem
                    THEN UpdateMaskValue(UpdateMaskOperation_REMOVE, NilMask)
                    ELSE UpdateMaskValue(UpdateMaskOperation_UPDATE,
                                         elem[i].nestedMask)]
            IN  CompareResult(\E i \in idx : elem[i].panic,
                              chg # {},
                              LinearizedSlice(mergedBefore),
                              LinearizedSlice(mergedAfter),
                              UpdateMask(values))
        ELSE NoChange
    ELSE IF prevValue.kind = "map" THEN
        IF latestValue.kind = "map" THEN
            LET prev == prevValue.m
                lat == latestValue.m
                both == DOMAIN prev \cap DOMAIN lat
                removed == DOMAIN prev \ DOMAIN lat
                added == DOMAIN lat \ DOMAIN prev
                elem == [key \in both |-> compareValues(prev[key], lat[key])]
                chg == {key \in both : elem[key].changed}
                hasBefore == {key \in both : elem[key].nestedBefore # NilValue}
                hasAfter == {key \in both : elem[key].nestedAfter # NilValue}
                mergedBefore == [key \in removed \cup added \cup hasBefore |->
                    IF key \in removed THEN prev[key]
                    ELSE IF key \in added THEN EmptyPair
                    ELSE elem[key].nestedBefore]
                mergedAfter == [key \in removed \cup added \cup hasAfter
                                        \cup (both \ chg) |->
                    IF key \in removed THEN EmptyPair
                    ELSE IF key \in added THEN lat[key]
                    ELSE IF key \in chg THEN elem[key].nestedAfter
                    ELSE lat[key]]
                values == [key \in removed \cup added \cup chg |->
                    IF key \in removed
                    THEN UpdateMaskValue(UpdateMaskOperation_REMOVE, NilMask)
                    ELSE IF key \in added
                    THEN UpdateMaskValue(UpdateMaskOperation_ADD, NilMask)
                    ELSE UpdateMaskValue(UpdateMaskOperation_UPDATE,
                                         elem[key].nestedMask)]
            IN  CompareResult(\E key \in both : elem[key].panic,
                              removed \cup added \cup chg # {},
                              LinearizedMap(mergedBefore),
                              LinearizedMap(mergedAfter),
                              UpdateMask(values))
        ELSE NoChange
    ELSE
        LET eq == GoEqual(prevValue, latestValue)
        IN  IF eq = "panic"
            THEN CompareResult(TRUE, FALSE, NilValue, NilValue, NilMask)
            ELSE IF eq = "ne"
            THEN CompareResult(FALSE, TRUE, prevValue, latestValue, NilMask)
            ELSE NoChange

(***************************************************************************)
(* Diff, src/linearize_diff.go:4-53.  A nil LinearizedObject is NilValue;  *)
(* ranging over it or indexing it behaves as for the empty map.            *)
(***************************************************************************)
ObjMap(v) == IF v.kind = "object" THEN v.m ELSE EmptyFn

\* keys for which `latest[key]` does not exist, lines 12-19
DiffRemoved(prev, lat) == DOMAIN prev \ DOMAIN lat

\* keys for which `previous[key]` does not exist, lines 36-43
DiffAdded(prev, lat) == DOMAIN lat \ DOMAIN prev

\* DiffMaskValue with the operations of a removed and an added key exchanged
DiffMaskValue_Exchanged(class, nestedMask) ==
    IF class = "removed"
    THEN UpdateMaskValue(UpdateMaskOperation_ADD, NilMask)
    ELSE IF class = "added"
    THEN UpdateMaskValue(UpdateMaskOperation_REMOVE, NilMask)
    ELSE UpdateMaskValue(UpdateMaskOperation_UPDATE, nestedMask)

\* the mask entry written for a key of each class, lines 17, 28-30, 41
DiffMaskValue(class, nestedMask) ==
    IF class = "removed"
    THEN UpdateMaskValue(UpdateMaskOperation_REMOVE, NilMask)
    ELSE IF class = "added"
    THEN UpdateMaskValue(UpdateMaskOperation_ADD, NilMask)
    ELSE UpdateMaskValue(UpdateMaskOperation_UPDATE, nestedMask)

\* DiffResult whose before is a new, empty Record
DiffResult_EmptyBefore(panic, before, after, m) ==
    [panic |-> panic,
     before |-> IF before.kind = "object" THEN LinearizedObject(EmptyFn)
                ELSE before,
     after |-> after, mask |-> m, err |-> "nil"]

DiffResult(panic, before, after, m) ==
    [panic |-> panic, before |-> before, after |-> after, mask |-> m,
     err |-> "nil"]

Diff(previousObj, latestObj) ==
    LET prev == ObjMap(previousObj)
        lat == ObjMap(latestObj)
        both == DOMAIN prev \cap DOMAIN lat
        removed == DiffRemoved(prev, lat)
        added == DiffAdded(prev, lat)
        cmp == [key \in both |-> compareValues(prev[key], lat[key])]
        chg == {key \in both : cmp[key].changed}
        keys == removed \cup added \cup chg
        before == [key \in keys |->
            IF key \in removed THEN prev[key]
            ELSE IF key \in added THEN NilValue
            ELSE cmp[key].nestedBefore]
        after == [key \in keys |->
            IF key \in removed THEN NilValue
            ELSE IF key \in added THEN lat[key]
            ELSE cmp[key].nestedAfter]
        masks == [key \in keys |->
            IF key \in removed THEN DiffMaskValue("removed", NilMask)
            ELSE IF key \in added THEN DiffMaskValue("added", NilMask)
            ELSE DiffMaskValue("changed", cmp[key].nestedMask)]
    IN  IF \E key \in both : cmp[key].panic
        THEN DiffResult(TRUE, NilValue, NilValue, NilMask)
        ELSE IF keys # {}
        THEN DiffResult(FALSE, LinearizedObject(before),
                        LinearizedObject(after), UpdateMask(masks))
        ELSE DiffResult(FALSE, NilValue, NilValue, NilMask)

(***************************************************************************)
(* Merge, mergeSlices, mergeMaps: src/unnamed/part_002:18-151.             *)
(* A call ends in one of "ok", "error" (a non-nil error is returned) or    *)
(* "panic".  Go ranges over mask.Values in an unspecified order and Merge  *)
(* returns at the first failing entry, so when several entries fail the    *)
(* call can end in any of their failures: outcomes is the set of ways the  *)
(* call can end, and val is the returned object when it ends "ok".         *)
(***************************************************************************)
MergeResult(outcomes, val) == [outcomes |-> outcomes, val |-> val]

\* ApplyFlat with a REMOVE branch that writes diff's value, as ADD does
ApplyFlat_RemoveWrites(op, pos, cur, dif) ==
    IF pos \in DOMAIN dif
    THEN [present |-> TRUE, val |-> dif[pos]]
    ELSE [present |-> pos \in DOMAIN cur, val |-> Lookup(cur, pos)]

\* the slot of one mask entry after the three `if maskValue.Op == ...`
\* blocks of mergeSlices / mergeMaps (lines 98-115, 131-148)
ApplyFlat(op, pos, cur, dif) ==
    IF op = UpdateMaskOperation_REMOVE
    THEN [present |-> FALSE, val |-> NilValue]
    ELSE IF op \in {UpdateMaskOperation_ADD, UpdateMaskOperation_UPDATE}
            /\ pos \in DOMAIN dif
    THEN [present |-> TRUE, val |-> dif[pos]]
    ELSE [present |-> pos \in DOMAIN cur, val |-> Lookup(cur, pos)]

mergeFlat(m, cur, dif) ==
    LET slot == [pos \in DOMAIN m.Values |->
                    ApplyFlat(m.Values[pos].Op, pos, cur, dif)]
        keys == (DOMAIN cur \ DOMAIN m.Values)
                \cup {pos \in DOMAIN m.Values : slot[pos].present}
    IN  [pos \in keys |-> IF pos \in DOMAIN m.Values THEN slot[pos].val
                          ELSE cur[pos]]

\* mergeSlices that returns diff's Sequence, as the plain overwrite of line 47
mergeSlices_TakesDiff(m, cur, dif) == MergeResult({"ok"}, dif)

mergeSlices(m, cur, dif) ==
    MergeResult({"ok"}, LinearizedSlice(mergeFlat(m, cur.m, dif.m)))

mergeMaps(m, cur, dif) ==
    MergeResult({"ok"}, LinearizedMap(mergeFlat(m, cur.m, dif.m)))

\* does Merge enter the nested dispatch for this entry, lines 51-52
EntersNested(maskValue, pos, cur) ==
    /\ maskValue.Op = UpdateMaskOperation_UPDATE
    /\ ~maskValue.Masks.isNil
    /\ pos \in DOMAIN cur

RECURSIVE Merge(_, _, _)
\* one iteration of the loop over mask.Values, lines 28-82:
\* fails is the set of ways the iteration can abort the call
MergeEntry(maskValue, pos, cur, dif) ==
    LET flat == ApplyFlat(maskValue.Op, pos, cur, dif)
        nestedVal == cur[pos]
        diffVal == Lookup(dif, pos)
        nested ==
            IF nestedVal.kind = "object"
            THEN Merge(maskValue.Masks, nestedVal, diffVal)
            ELSE IF nestedVal.kind = "slice"
            THEN mergeSlices(maskValue.Masks, nestedVal, diffVal)
            ELSE mergeMaps(maskValue.Masks, nestedVal, diffVal)
    IN  IF ~EntersNested(maskValue, pos, cur)
        THEN [fails |-> {}, present |-> flat.present, val |-> flat.val]
        ELSE IF ~IsComposite(nestedVal)
        THEN [fails |-> {"error"}, present |-> FALSE, val |-> NilValue]
        ELSE IF diffVal.kind # nestedVal.kind
        THEN [fails |-> {"panic"}, present |-> FALSE, val |-> NilValue]
        ELSE [fails |-> nested.outcomes \ {"ok"}, present |-> TRUE,
              val |-> nested.val]

Merge(m, currentObj, diffObj) ==
    IF m.isNil THEN MergeResult({"panic"}, NilValue)
    ELSE
    LET cur == ObjMap(currentObj)
        dif == ObjMap(diffObj)
        entry == [pos \in DOMAIN m.Values |->
                    MergeEntry(m.Values[pos], pos, cur, dif)]
        fails == UNION {entry[pos].fails : pos \in DOMAIN m.Values}
        keys == (DOMAIN cur \ DOMAIN m.Values)
                \cup {pos \in DOMAIN m.Values : entry[pos].present}
        merged == [pos \in keys |->
                    IF pos \in DOMAIN m.Values THEN entry[pos].val
                    ELSE cur[pos]]
    IN  IF fails # {} THEN MergeResult(fails, NilValue)
        ELSE MergeResult({"ok"}, LinearizedObject(merged))

(***************************************************************************)
(* Go maps are references.  Every write of Merge, mergeSlices and          *)
(* mergeMaps goes to `merged`, which `merged := make(...)` (lines 19, 89,  *)
(* 122) makes a new map filled from current (lines 22-25); the results of  *)
(* nested calls are stored in merged (lines 61, 68, 75).  MergedIs says    *)
(* which map that is: a copy, or the caller's current itself.              *)
(***************************************************************************)
MergedIs_Current == "current"

MergedIs == "copy"

\* what the caller's current holds after a call that ended with outcome o
\* and, when "ok", left `written` in merged
CallerCurrentAfter(currentObj, o, written) ==
    IF MergedIs = "copy" \/ o # "ok" THEN currentObj ELSE written

(***************************************************************************)
(* The map branch of Linearize, src/unnamed/part_004:29-68: the entries of *)
(* a dictionary (a function key -> value) are sorted by key and stored     *)
(* under their rank 0, 1, ... as [2]any{key, value}.                       *)
(***************************************************************************)
LinearizeMap(d) ==
    LET keys == DOMAIN d
        rank(k) == Cardinality({j \in keys : j < k})
        keyAt(i) == CHOOSE k \in keys : rank(k) = i
    IN  LinearizedMap([i \in 0 .. (Cardinality(keys) - 1) |->
                          Pair(Scalar(keyAt(i)), d[keyAt(i)])])

\* the list branch of Linearize, part_004:69-93: element i under key int32(i)
LinearizeList(seq) == LinearizedSlice([i \in 0 .. (Len(seq) - 1) |-> seq[i + 1]])

(***************************************************************************)
(* Unlinearize, unlinearizeStruct, unlinearizeValue:                       *)
(* src/unnamed/part_004:114-218.                                           *)
(*                                                                         *)
(* The schema is the one of the mock messages (src/mocks/mocks.go):        *)
(*   Simple  { string Field1 = 1; int32 Field2 = 2;                        *)
(*             repeated string Repeated = 3; }                             *)
(*   Complex { string Field1 = 1; int32 Field2 = 2; Simple Nested = 3;     *)
(*             repeated Simple Repeated = 4; map<string, Simple> Map = 5; }*)
(* A field descriptor has a cardinality, the kind fd.Kind() reports, and   *)
(* the descriptor fd.Message() returns ("none": nil).  A map field is a    *)
(* repeated field of a generated entry message {key = 1; value = 2}, so    *)
(* its Kind() is MessageKind and its Message() is the entry descriptor.    *)
(***************************************************************************)
FieldDescriptor(card, kind, msg) == [card |-> card, kind |-> kind, msg |-> msg]

Descriptors ==
    [Simple |->
        (1 :> FieldDescriptor("single", "string", "none")
         @@ 2 :> FieldDescriptor("single", "int32", "none")
         @@ 3 :> FieldDescriptor("list", "string", "none")),
     Complex |->
        (1 :> FieldDescriptor("single", "string", "none")
         @@ 2 :> FieldDescriptor("single", "int32", "none")
         @@ 3 :> FieldDescriptor("single", "message", "Simple")
         @@ 4 :> FieldDescriptor("list", "message", "Simple")
         @@ 5 :> FieldDescriptor("map", "message", "MapEntry")),
     MapEntry |->
        (1 :> FieldDescriptor("single", "string", "none")
         @@ 2 :> FieldDescriptor("single", "message", "Simple"))]

\* msgReflect.Fields().ByNumber(i) != nil
HasField(desc, i) == i \in DOMAIN Descriptors[desc]

\* the dynamic Go type of a scalar of the tree: the values of StringValues
\* are strings, the other scalar values are int32
StringValues == {1, 3}

TypeOf(value) == IF value.v \in StringValues THEN "string" ELSE "int32"

\* Go values of the generated structs: Zero is the zero value of a field
\* (empty string, 0, nil pointer, nil slice, nil map)
Zero == [kind |-> "zero"]

Struct(desc, f) == [kind |-> "struct", desc |-> desc, f |-> f]

GoSlice(e) == [kind |-> "goslice", e |-> e]

GoMap(e) == [kind |-> "gomap", e |-> e]

\* reflect.New(T).Elem() of a message type
ZeroStruct(desc) == Struct(desc, [i \in DOMAIN Descriptors[desc] |-> Zero])

\* field.Kind() of the struct field of a field descriptor
FieldKind(fd) ==
    IF fd.card = "list" THEN "slice"
    ELSE IF fd.card = "map" THEN "map"
    ELSE IF fd.kind = "message" THEN "ptr"
    ELSE fd.kind

\* the Kind() of an element of a repeated field, or of a value of a map
\* field (the type of the entry's field 2)
ElemKind(fd) ==
    LET k == IF fd.card = "map" THEN Descriptors[fd.msg][2].kind ELSE fd.kind
    IN  IF k = "message" THEN "ptr" ELSE k

\* the message type an element, a map value or a message field points to
ElemMessage(fd) ==
    IF fd.card = "map" THEN Descriptors[fd.msg][2].msg ELSE fd.msg

\* what a call returns: the ways it can end ("ok", "error", "panic"), and
\* the value left in the field when it ends "ok"
UnlinearizeResult(outcomes, val) == [outcomes |-> outcomes, val |-> val]

RECURSIVE unlinearizeStruct(_, _, _)
\* Unlinearize, lines 114-123: the target is always a pointer to a struct
Unlinearize(m, message) == unlinearizeStruct(message, m, message.desc)

\* unlinearizeValue, lines 192-218; field is the value the target holds and
\* goKind its field.Kind()
unlinearizeValue(field, goKind, value, fd) ==
    IF fd.kind = "message" THEN
        IF goKind # "ptr" THEN UnlinearizeResult({"error"}, field)
        ELSE IF value.kind # "object"
        THEN UnlinearizeResult({"panic"}, field)
        ELSE Unlinearize(value, IF field = Zero
                                THEN ZeroStruct(ElemMessage(fd)) ELSE field)
    ELSE
        IF value.kind = "nil" THEN UnlinearizeResult({"panic"}, field)
        ELSE IF value.kind # "scalar" THEN UnlinearizeResult({"error"}, field)
        ELSE IF TypeOf(value) # goKind THEN UnlinearizeResult({"error"}, field)
        ELSE UnlinearizeResult({"ok"}, value)

\* the elements of a repeated field, lines 155-165
unlinearizeSlice(value, fd) ==
    LET len == Cardinality(DOMAIN value.m)
        elem == [j \in DOMAIN value.m |->
                    IF j \notin 0 .. (len - 1)
                    THEN UnlinearizeResult({"panic"}, Zero)
                    ELSE unlinearizeValue(Zero, ElemKind(fd), value.m[j], fd)]
        fails == UNION {elem[j].outcomes \ {"ok"} : j \in DOMAIN value.m}
    IN  IF fails # {} THEN UnlinearizeResult(fails, Zero)
        ELSE UnlinearizeResult({"ok"},
                GoSlice([j \in 0 .. (len - 1) |->
                            IF j \in DOMAIN value.m THEN elem[j].val ELSE Zero]))

\* the entries of a map field, lines 167-180
unlinearizeMap(value, fd) ==
    LET elem == [j \in DOMAIN value.m |->
                    IF value.m[j].k.kind # "scalar"
                    THEN UnlinearizeResult({"panic"}, Zero)
                    ELSE unlinearizeValue(Zero, ElemKind(fd), value.m[j].v, fd)]
        fails == UNION {elem[j].outcomes \ {"ok"} : j \in DOMAIN value.m}
        keys == {value.m[j].k.v : j \in DOMAIN value.m}
        at(k) == CHOOSE j \in DOMAIN value.m : value.m[j].k.v = k
    IN  IF fails # {} THEN UnlinearizeResult(fails, Zero)
        ELSE UnlinearizeResult({"ok"}, GoMap([k \in keys |-> elem[at(k)].val]))

\* UnknownField that lets the entry pass
UnknownField_Ignored == UnlinearizeResult({"ok"}, Zero)

\* `if fd == nil { return fmt.Errorf(...) }`, lines 129-131
UnknownField == UnlinearizeResult({"error"}, Zero)

\* one iteration of the loop over data, lines 127-186
unlinearizeEntry(v, i, d, desc) ==
    IF ~HasField(desc, i) THEN UnknownField
    ELSE
    LET fd == Descriptors[desc][i]
        field == v.f[i]
    IN  IF d.kind = "object" THEN
            IF FieldKind(fd) = "ptr"
            THEN unlinearizeStruct(IF field = Zero THEN ZeroStruct(fd.msg)
                                   ELSE field, d, fd.msg)
            ELSE IF DOMAIN d.m = {} THEN UnlinearizeResult({"ok"}, field)
            ELSE IF fd.msg = "none" THEN UnlinearizeResult({"panic"}, field)
            ELSE UnlinearizeResult(
                    {"error" : j \in {n \in DOMAIN d.m : ~HasField(fd.msg, n)}}
                    \cup {"panic" : j \in {n \in DOMAIN d.m : HasField(fd.msg, n)}},
                    field)
        ELSE IF d.kind = "slice" THEN
            IF FieldKind(fd) # "slice" THEN UnlinearizeResult({"error"}, field)
            ELSE unlinearizeSlice(d, fd)
        ELSE IF d.kind = "map" THEN
            IF FieldKind(fd) # "map" THEN UnlinearizeResult({"error"}, field)
            ELSE unlinearizeMap(d, fd)
        ELSE unlinearizeValue(field, FieldKind(fd), d, fd)

\* KeptField that clears the field
KeptField_Cleared(v, n) == Zero

\* a field whose number is not in data is not touched by the loop of line 127
KeptField(v, n) == v.f[n]

\* unlinearizeStruct, lines 126-189.  Go ranges over data in an unspecified
\* order and returns at the first failing entry.
unlinearizeStruct(v, data, desc) ==
    LET dat == ObjMap(data)
        entry == [i \in DOMAIN dat |-> unlinearizeEntry(v, i, dat[i], desc)]
        fails == UNION {entry[i].outcomes \ {"ok"} : i \in DOMAIN dat}
    IN  IF fails # {} THEN UnlinearizeResult(fails, v)
        ELSE UnlinearizeResult({"ok"},
                Struct(desc, [n \in DOMAIN v.f |->
                                IF n \in DOMAIN dat THEN entry[n].val
                                ELSE KeptField(v, n)]))

(***************************************************************************)
(* Input spaces.                                                           *)
(***************************************************************************)
None == [kind |-> "none"]

PartialFns(D, V) == UNION {[S -> V] : S \in SUBSET D}

SeqsUpTo(V, n) == UNION {[1 .. k -> V] : k \in 0 .. n}

Scalars == {Scalar(i) : i \in ScalarValues}

\* a one-field message, the element type of repeated and map fields
ElemObjects == {LinearizedObject(f) : f \in [{1} -> Scalars]}

Objects == {LinearizedObject(f) : f \in PartialFns(FieldIds, Scalars)}

Slices(V) == {LinearizeList(q) : q \in SeqsUpTo(V, MaxLen)}

Maps(V) == {LinearizeMap(d) : d \in PartialFns(MapKeys, V)}

\* the values a message field linearizes to
FieldValues ==
    Scalars \cup Objects \cup Slices(Scalars) \cup Slices(ElemObjects)
            \cup Maps(Scalars) \cup Maps(ElemObjects)

\* Linearized messages: field 1 of any kind, the other fields scalar,
\* each field populated or not.
Records ==
    {LinearizedObject(g) : g \in PartialFns(FieldIds \ {1}, Scalars)}
    \cup {LinearizedObject((1 :> w) @@ g) :
            w \in FieldValues, g \in PartialFns(FieldIds \ {1}, Scalars)}

(***************************************************************************)
(* Spec: Linearize two messages, Diff them, Merge the forward delta into   *)
(* the first (as the tests do: _, diff, mask, err := Diff(l1, l2);         *)
(* Merge(mask, l1, diff)), then apply the same delta once more.            *)
(***************************************************************************)
Init ==
    /\ pc = "start"
    /\ previous \in Records
    /\ latest \in Records
    /\ dres = None
    /\ mask = None
    /\ current = None
    /\ diff = None
    /\ mres = None
    /\ mres2 = None
    /\ diff2 = None
    /\ history = None
    /\ linearized = None
    /\ unlinearized = None

RunDiff ==
    /\ pc = "start"
    /\ LET r == Diff(previous, latest)
       IN  /\ dres' = r
           /\ pc' = IF r.panic THEN "diff_panic" ELSE "diffed"
           /\ mask' = IF r.panic THEN None ELSE r.mask
           /\ current' = IF r.panic THEN None ELSE previous
           /\ diff' = IF r.panic THEN None ELSE r.after
    /\ UNCHANGED <<previous, latest, mres, mres2, unlinearized, diff2, history,
                   linearized>>

RunMerge ==
    /\ pc = "diffed"
    /\ LET r == Merge(mask, current, diff)
       IN  \E o \in r.outcomes :
              /\ mres' = [outcome |-> o, val |-> r.val]
              /\ current' = CallerCurrentAfter(current, o, r.val)
              /\ pc' = "merged"
    /\ UNCHANGED <<previous, latest, dres, mask, diff, mres2, unlinearized, diff2,
                   history, linearized>>

RunMergeAgain ==
    /\ pc = "merged"
    /\ mres.outcome = "ok"
    /\ LET r == Merge(mask, mres.val, diff)
       IN  \E o \in r.outcomes :
              /\ mres2' = [outcome |-> o, val |-> r.val]
              /\ mres' = [mres EXCEPT !.val = CallerCurrentAfter(mres.val, o, r.val)]
              /\ pc' = "done"
    /\ UNCHANGED <<previous, latest, dres, mask, current, diff, unlinearized,
                   diff2, history, linearized>>

\* the other use of a delta: before, after, mask, err := Diff(l1, l2);
\* Merge(mask, before, after)
RunMergeBefore ==
    /\ pc = "diffed"
    /\ dres # None
    /\ LET r == Merge(mask, dres.before, diff)
       IN  \E o \in r.outcomes :
              /\ mres' = [outcome |-> o, val |-> r.val]
              /\ dres' = [dres EXCEPT
                            !.before = CallerCurrentAfter(dres.before, o, r.val)]
              /\ pc' = "merged_before"
    /\ UNCHANGED <<previous, latest, mask, current, diff, mres2, unlinearized,
                   diff2, history, linearized>>

Next == RunDiff \/ RunMerge \/ RunMergeAgain \/ RunMergeBefore

Spec == Init /\ [][Next]_vars

(***************************************************************************)
(* Claims about Diff followed by Merge (checked under Spec).               *)
(***************************************************************************)
DiffReturned == pc \in {"diffed", "merged", "done"}

\* C1: forward round trip: whenever Diff(previous, latest) has returned
\* (_, after, mask), Merge(mask, previous, after) succeeds and returns a
\* Record equal to latest, for every pair, previous = latest included.
C1_ForwardRoundTrip ==
    pc = "merged" => (mres.outcome = "ok" /\ mres.val = latest)

\* C2: Diff(A, A) returns a nil mask, a nil before, a nil after and a nil
\* error, whatever A holds.
C2_DiffOfEqualIsNil ==
    (pc # "start" /\ previous = latest) =>
        dres = DiffResult(FALSE, NilValue, NilValue, NilMask)

\* C3: Diff returns a nil mask only for identical Records: when previous and
\* latest differ, the returned mask is non-nil and holds an operation.
C3_NilMaskOnlyIfIdentical ==
    (DiffReturned /\ previous # latest) =>
        (~dres.mask.isNil /\ DOMAIN dres.mask.Values # {})

\* C5: in what Diff returns, an identifier of previous absent from latest has
\* exactly REMOVE with no nested mask, before holds the removed value and
\* after holds nil; an identifier of latest absent from previous has exactly
\* ADD, before holds nil and after the new value; against an empty previous
\* the mask holds an ADD for every identifier of latest and nothing else.
C5_RecordClassification ==
    DiffReturned =>
        LET prev == ObjMap(previous)
            lat == ObjMap(latest)
            onlyPrev == DOMAIN prev \ DOMAIN lat
            onlyLat == DOMAIN lat \ DOMAIN prev
        IN  /\ (onlyPrev \cup onlyLat # {}) => ~dres.mask.isNil
            /\ \A key \in onlyPrev :
                  /\ key \in DOMAIN dres.mask.Values
                  /\ dres.mask.Values[key] =
                        UpdateMaskValue(UpdateMaskOperation_REMOVE, NilMask)
                  /\ key \in DOMAIN dres.before.m /\ dres.before.m[key] = prev[key]
                  /\ key \in DOMAIN dres.after.m /\ dres.after.m[key] = NilValue
            /\ \A key \in onlyLat :
                  /\ key \in DOMAIN dres.mask.Values
                  /\ dres.mask.Values[key] =
                        UpdateMaskValue(UpdateMaskOperation_ADD, NilMask)
                  /\ key \in DOMAIN dres.before.m /\ dres.before.m[key] = NilValue
                  /\ key \in DOMAIN dres.after.m /\ dres.after.m[key] = lat[key]
            /\ (DOMAIN prev = {} /\ DOMAIN lat # {}) =>
                  /\ DOMAIN dres.mask.Values = DOMAIN lat
                  /\ \A key \in DOMAIN lat :
                        dres.mask.Values[key].Op = UpdateMaskOperation_ADD

\* C5 witness: Diff has returned for a pair with one identifier only in
\* previous and another only in latest.
C5_Witness ==
    /\ pc = "diffed"
    /\ DOMAIN ObjMap(previous) \ DOMAIN ObjMap(latest) # {}
    /\ DOMAIN ObjMap(latest) \ DOMAIN ObjMap(previous) # {}

\* C13: round trip from the before-delta: whenever Diff(previous, latest)
\* has returned (before, after, mask), Merge(mask, before, after) succeeds
\* and returns a Record equal to latest.
C13_BeforeRoundTrip ==
    pc = "merged_before" => (mres.outcome = "ok" /\ mres.val = latest)

(***************************************************************************)
(* SpecCompare: compareValues applied to two values of any kinds.          *)
(***************************************************************************)
Pairs == {Pair(Scalar(k), v) : k \in MapKeys, v \in Scalars \cup ElemObjects}

CompareValuesInputs == {NilValue} \cup FieldValues \cup Pairs

InitCompare ==
    /\ pc = "start"
    /\ previous \in CompareValuesInputs
    /\ latest \in CompareValuesInputs
    /\ dres = None
    /\ mask = None
    /\ current = None
    /\ diff = None
    /\ mres = None
    /\ mres2 = None
    /\ diff2 = None
    /\ history = None
    /\ linearized = None
    /\ unlinearized = None

RunCompare ==
    /\ pc = "start"
    /\ dres' = compareValues(previous, latest)
    /\ pc' = IF dres'.panic THEN "compare_panic" ELSE "compared"
    /\ UNCHANGED <<previous, latest, mask, current, diff, mres, mres2, unlinearized,
                   diff2, history, linearized>>

NextCompare == RunCompare

SpecCompare == InitCompare /\ [][NextCompare]_vars

SliceLen(v) == Cardinality(DOMAIN v.m)

\* latest is previous with at least one element appended
IsGrowth(p, l) ==
    /\ p.kind = "slice" /\ l.kind = "slice"
    /\ SliceLen(p) < SliceLen(l)
    /\ \A i \in DOMAIN p.m : l.m[i] = p.m[i]

\* C6: Sequence growth: when latest is previous with k >= 1 elements
\* appended, the nested mask holds exactly k operations, all ADD, at the
\* positions len(previous) .. len(previous)+k-1.
C6_SequenceGrowthAdds ==
    (pc # "start" /\ IsGrowth(previous, latest)) =>
        /\ ~dres.panic
        /\ ~dres.nestedMask.isNil
        /\ DOMAIN dres.nestedMask.Values
              = SliceLen(previous) .. (SliceLen(latest) - 1)
        /\ \A i \in DOMAIN dres.nestedMask.Values :
              dres.nestedMask.Values[i].Op = UpdateMaskOperation_ADD

\* C7: Sequence shrink: when latest is previous with its last k >= 1
\* elements dropped, the nested mask holds exactly k REMOVE operations, at
\* the positions len(latest) .. len(previous)-1, and nothing else.
C7_SequenceShrinkRemoves ==
    (pc # "start" /\ IsGrowth(latest, previous)) =>
        /\ ~dres.panic
        /\ ~dres.nestedMask.isNil
        /\ DOMAIN dres.nestedMask.Values
              = SliceLen(latest) .. (SliceLen(previous) - 1)
        /\ \A i \in DOMAIN dres.nestedMask.Values :
              dres.nestedMask.Values[i].Op = UpdateMaskOperation_REMOVE

\* the dictionary keys of a linearized map, and where a key is stored
KeysOf(v) == {k \in MapKeys : \E i \in DOMAIN v.m : v.m[i].k = Scalar(k)}

PosOf(v, k) == CHOOSE i \in DOMAIN v.m : v.m[i].k = Scalar(k)

ValueOf(v, k) == v.m[PosOf(v, k)].v

OpAt(m, i) == IF i \in DOMAIN m.Values THEN m.Values[i].Op ELSE "none"

\* C8: Dictionary diff goes by key: a key only in previous has REMOVE, a key
\* only in latest has ADD, a key in both has UPDATE iff its values differ,
\* and an entry with the same key and value on both sides has no operation,
\* also when other entries moved it to another place in the ordering.
C8_DictionaryByKey ==
    (pc = "compared" /\ previous.kind = "map" /\ latest.kind = "map") =>
        \A k \in MapKeys :
            LET inPrev == k \in KeysOf(previous)
                inLat == k \in KeysOf(latest)
                m == dres.nestedMask
            IN  /\ (inPrev /\ ~inLat) =>
                      OpAt(m, PosOf(previous, k)) = UpdateMaskOperation_REMOVE
                /\ (inLat /\ ~inPrev) =>
                      OpAt(m, PosOf(latest, k)) = UpdateMaskOperation_ADD
                /\ (inPrev /\ inLat /\ ValueOf(previous, k) # ValueOf(latest, k)) =>
                      OpAt(m, PosOf(latest, k)) = UpdateMaskOperation_UPDATE
                /\ (inPrev /\ inLat /\ ValueOf(previous, k) = ValueOf(latest, k)) =>
                      /\ OpAt(m, PosOf(previous, k)) = "none"
                      /\ OpAt(m, PosOf(latest, k)) = "none"

\* two shapes that do not match: different kinds, one of them a composite
ShapeMismatch(p, l) ==
    /\ p.kind # l.kind
    /\ IsComposite(p) \/ IsComposite(l)

\* C9: a shape mismatch is a full replacement, whichever side is the
\* composite: changed, no nested mask, before and after are the raw values.
C9_ShapeMismatchReplaces ==
    (pc # "start" /\ ShapeMismatch(previous, latest)) =>
        dres = CompareResult(FALSE, TRUE, previous, latest, NilMask)

\* the Dictionaries p and l both hold a Record under key k, and the two
\* Records both hold field f, with different values
SameKeyRecordDiffers(p, l, k, f) ==
    /\ p.kind = "map" /\ l.kind = "map"
    /\ k \in KeysOf(p) \cap KeysOf(l)
    /\ ValueOf(p, k).kind = "object" /\ ValueOf(l, k).kind = "object"
    /\ f \in DOMAIN ValueOf(p, k).m \cap DOMAIN ValueOf(l, k).m
    /\ ValueOf(p, k).m[f] # ValueOf(l, k).m[f]

\* the mask nested under the entry at key of the non-nil mask m
MasksAt(m, key) == m.Values[key].Masks

\* C15: nested Dictionary change: when a Record field holds a Dictionary in
\* both snapshots and an entry with the same key holds a Record in both
\* whose field f differs, Diff returns, and its mask holds UPDATE at the
\* field, with a nested mask holding UPDATE for that entry, with a nested
\* mask holding UPDATE at f.
C15_NestedDictionaryChange ==
    \A id \in FieldIds, k \in MapKeys, f \in FieldIds :
        (/\ pc # "start"
         /\ id \in DOMAIN previous.m \cap DOMAIN latest.m
         /\ SameKeyRecordDiffers(previous.m[id], latest.m[id], k, f)) =>
            /\ ~dres.panic
            /\ ~dres.mask.isNil
            /\ OpAt(dres.mask, id) = UpdateMaskOperation_UPDATE
            /\ ~MasksAt(dres.mask, id).isNil
            /\ OpAt(MasksAt(dres.mask, id), PosOf(latest.m[id], k))
                  = UpdateMaskOperation_UPDATE
            /\ ~MasksAt(MasksAt(dres.mask, id), PosOf(latest.m[id], k)).isNil
            /\ OpAt(MasksAt(MasksAt(dres.mask, id), PosOf(latest.m[id], k)), f)
                  = UpdateMaskOperation_UPDATE

\* field id holds a Sequence in both snapshots
SequenceField(id) ==
    /\ id \in DOMAIN previous.m \cap DOMAIN latest.m
    /\ previous.m[id].kind = "slice"
    /\ latest.m[id].kind = "slice"

\* field id of the merged Record holds latest's Sequence: the same length,
\* the same element at every position, no position beyond
MergedSequenceIsLatest(id) ==
    /\ mres.outcome = "ok"
    /\ id \in DOMAIN mres.val.m
    /\ mres.val.m[id].kind = "slice"
    /\ DOMAIN mres.val.m[id].m = 0 .. (SliceLen(latest.m[id]) - 1)
    /\ \A i \in DOMAIN latest.m[id].m : mres.val.m[id].m[i] = latest.m[id].m[i]

\* C16: Merge after Sequence growth: when a Sequence field of latest is that
\* of previous with k >= 1 Scalar elements appended, Merge(mask, previous,
\* after) leaves in that field a Sequence of len(latest) elements, equal to
\* latest's at every position.
C16_MergeAfterGrowth ==
    \A id \in FieldIds :
        (/\ pc = "merged"
         /\ SequenceField(id)
         /\ IsGrowth(previous.m[id], latest.m[id])
         /\ \A i \in DOMAIN latest.m[id].m \ DOMAIN previous.m[id].m :
                latest.m[id].m[i].kind = "scalar") =>
            MergedSequenceIsLatest(id)

\* C16 witness: Merge has returned for a non-empty Sequence that grew.
C16_Witness ==
    /\ pc = "merged"
    /\ mres.outcome = "ok"
    /\ \E id \in FieldIds :
          /\ SequenceField(id)
          /\ IsGrowth(previous.m[id], latest.m[id])
          /\ SliceLen(previous.m[id]) >= 1
          /\ latest.m[id].m[SliceLen(previous.m[id])].kind = "scalar"

\* C17: Merge after Sequence shrink: when a Sequence field of latest is
\* shorter than that of previous by any k >= 1, Merge(mask, previous, after)
\* leaves in that field a Sequence of len(latest) elements, equal to
\* latest's at every position, and no position beyond.
C17_MergeAfterShrink ==
    \A id \in FieldIds :
        (/\ pc = "merged"
         /\ SequenceField(id)
         /\ SliceLen(latest.m[id]) < SliceLen(previous.m[id])) =>
            MergedSequenceIsLatest(id)

(***************************************************************************)
(* SpecMerge: Merge applied to any mask, current and diff, twice.  Merge   *)
(* never inspects a scalar, so current is built from one scalar and diff   *)
(* from another; field 2 is a scalar field, field 1 is of any kind.        *)
(***************************************************************************)
ValuesOver(S) ==
    S \cup {LinearizedObject(f) : f \in PartialFns(FieldIds, S)}
      \cup {LinearizeList(q) : q \in SeqsUpTo(S, MaxLen)}
      \cup {LinearizeList(q) :
              q \in SeqsUpTo({LinearizedObject(f) : f \in [{1} -> S]}, MaxLen)}
      \cup {LinearizeMap(d) : d \in PartialFns(MapKeys, S)}

RecordsOver(S) ==
    {LinearizedObject(g) : g \in PartialFns({2}, S)}
    \cup {LinearizedObject((1 :> w) @@ g) :
            w \in ValuesOver(S), g \in PartialFns({2}, S)}

Ops == {UpdateMaskOperation_ADD, UpdateMaskOperation_REMOVE,
        UpdateMaskOperation_UPDATE}

\* the entries a mask can hold under one key, given the nested masks N
EntriesWith(N) ==
    {UpdateMaskValue(op, NilMask) : op \in Ops}
    \cup {UpdateMaskValue(UpdateMaskOperation_UPDATE, n) : n \in N}

MasksOver(K, N) == {UpdateMask(f) : f \in PartialFns(K, EntriesWith(N))}

InnerMasks == MasksOver({1}, {})

NestedMasks == MasksOver({1}, InnerMasks)

TopMasks ==
    {UpdateMask(f @@ g) :
        f \in PartialFns({1}, EntriesWith(NestedMasks)),
        g \in PartialFns({2}, {UpdateMaskValue(UpdateMaskOperation_UPDATE, NilMask),
                                UpdateMaskValue(UpdateMaskOperation_REMOVE, NilMask)})}

InitMerge ==
    /\ pc = "diffed"
    /\ mask \in TopMasks
    /\ current \in RecordsOver({Scalar(1)})
    /\ diff \in RecordsOver({Scalar(2)})
    /\ previous = None
    /\ latest = None
    /\ dres = None
    /\ mres = None
    /\ mres2 = None
    /\ diff2 = None
    /\ history = None
    /\ linearized = None
    /\ unlinearized = None

NextMerge == RunMerge \/ RunMergeAgain

SpecMerge == InitMerge /\ [][NextMerge]_vars

(***************************************************************************)
(* SpecEngines: both engines on all their inputs: the runs of Spec, and    *)
(* the runs of Merge on any mask, current and diff (InitMerge, below).     *)
(***************************************************************************)
InitEngines == Init \/ InitMerge

SpecEngines == InitEngines /\ [][Next]_vars

C4_MergeIdempotent ==
    pc = "done" => (mres2.outcome = "ok" /\ mres2.val = mres.val)

\* res agrees with cur on every key outside the mask m, at this level and at
\* every level below that a nested mask leads to
RECURSIVE Untouched(_, _, _)
Untouched(m, cur, res) ==
    /\ res.kind = cur.kind
    /\ \A key \in (DOMAIN cur.m \cup DOMAIN res.m) \ DOMAIN m.Values :
          /\ key \in DOMAIN cur.m
          /\ key \in DOMAIN res.m
          /\ res.m[key] = cur.m[key]
    /\ \A key \in DOMAIN m.Values \cap DOMAIN cur.m :
          (/\ m.Values[key].Op = UpdateMaskOperation_UPDATE
           /\ ~m.Values[key].Masks.isNil
           /\ IsComposite(cur.m[key])) =>
              /\ key \in DOMAIN res.m
              /\ Untouched(m.Values[key].Masks, cur.m[key], res.m[key])

\* C10: Merge frame: in the Record Merge returns, every identifier, position
\* and key outside the mask, at every level reached through nested masks,
\* holds what current holds there, whatever diff holds.
C10_MergeFrame ==
    (pc = "merged" /\ mres.outcome = "ok") => Untouched(mask, current, mres.val)

\* the value held in a slot: a dictionary slot holds its pair's value
SlotValue(x) == IF x.kind = "pair" THEN x.v ELSE x

\* the mask m, applied to the composite cur, carries a nested mask at a slot
\* where cur holds a Scalar, at this level or at a level below
RECURSIVE NestedMaskOnScalar(_, _)
NestedMaskOnScalar(m, cur) ==
    \E key \in DOMAIN m.Values \cap DOMAIN cur.m :
        /\ ~m.Values[key].Masks.isNil
        /\ \/ SlotValue(cur.m[key]).kind = "scalar"
           \/ /\ IsComposite(SlotValue(cur.m[key]))
              /\ NestedMaskOnScalar(m.Values[key].Masks, SlotValue(cur.m[key]))

\* C11: Merge failure semantics: whenever the mask carries a nested mask at
\* a slot where current holds a Scalar, at any nesting level, the top-level
\* Merge call returns a non-nil error.
C11_NestedMaskOnScalarFails ==
    (pc = "merged" /\ NestedMaskOnScalar(mask, current)) =>
        mres.outcome = "error"

\* the mask entry at key leads Merge from the Record cur into the composite
\* cur holds at key
Descends(m, cur, key) ==
    /\ cur.kind = "object"
    /\ key \in DOMAIN m.Values \cap DOMAIN cur.m
    /\ m.Values[key].Op = UpdateMaskOperation_UPDATE
    /\ ~m.Values[key].Masks.isNil
    /\ IsComposite(cur.m[key])

\* the mask holds a REMOVE for a slot absent from cur, in cur itself or in a
\* Record, Sequence or Dictionary that the nested masks lead to
RECURSIVE RemoveOfAbsent(_, _)
RemoveOfAbsent(m, cur) ==
    \E key \in DOMAIN m.Values :
        \/ /\ m.Values[key].Op = UpdateMaskOperation_REMOVE
           /\ key \notin DOMAIN cur.m
        \/ /\ Descends(m, cur, key)
           /\ RemoveOfAbsent(m.Values[key].Masks, cur.m[key])

\* every such slot is absent from res
RECURSIVE AbsentStaysAbsent(_, _, _)
AbsentStaysAbsent(m, cur, res) ==
    \A key \in DOMAIN m.Values :
        /\ (/\ m.Values[key].Op = UpdateMaskOperation_REMOVE
            /\ key \notin DOMAIN cur.m) => key \notin DOMAIN res.m
        /\ Descends(m, cur, key) =>
              /\ key \in DOMAIN res.m
              /\ res.m[key].kind = cur.m[key].kind
              /\ AbsentStaysAbsent(m.Values[key].Masks, cur.m[key], res.m[key])

\* an entry other than a REMOVE makes the call fail: a nested mask on a
\* Record slot that holds a Scalar, or a diff that does not hold the kind of
\* composite current holds
RECURSIVE OtherEntryFails(_, _, _)
OtherEntryFails(m, cur, dif) ==
    \E key \in DOMAIN m.Values \cap DOMAIN cur.m :
        /\ cur.kind = "object"
        /\ m.Values[key].Op = UpdateMaskOperation_UPDATE
        /\ ~m.Values[key].Masks.isNil
        /\ \/ ~IsComposite(cur.m[key])
           \/ Lookup(dif.m, key).kind # cur.m[key].kind
           \/ OtherEntryFails(m.Values[key].Masks, cur.m[key], dif.m[key])

\* C12: a REMOVE that targets a field identifier, Sequence position or
\* Dictionary slot absent from current is a no-op for that slot: it makes
\* Merge return no error, and the result does not contain the slot.
C12_RemoveOfAbsentIsNoOp ==
    (pc = "merged" /\ RemoveOfAbsent(mask, current)
                   /\ ~OtherEntryFails(mask, current, diff)) =>
        /\ mres.outcome = "ok"
        /\ AbsentStaysAbsent(mask, current, mres.val)

\* C12 witness: Merge has returned for a mask with a REMOVE of a position
\* absent from a Sequence of current, and with a REMOVE of an absent field.
C12_Witness ==
    /\ pc = "merged"
    /\ mres.outcome = "ok"
    /\ \E key \in DOMAIN mask.Values :
          /\ Descends(mask, current, key)
          /\ current.m[key].kind = "slice"
          /\ RemoveOfAbsent(mask.Values[key].Masks, current.m[key])
    /\ \E key \in DOMAIN mask.Values :
          /\ mask.Values[key].Op = UpdateMaskOperation_REMOVE
          /\ key \notin DOMAIN current.m
          /\ key \in DOMAIN diff.m

(***************************************************************************)
(* SpecUnlinearize: Unlinearize(data, &unlinearized) for a Complex target, *)
(* fresh (var unlinearized mocks.Complex) or already populated, and a tree *)
(* with any of the fields of Complex, possibly a field number the schema   *)
(* does not declare, at the top or in a nested message.                    *)
(***************************************************************************)
\* a field number that none of the messages declares
UnknownNumber ==
    CHOOSE n \in 1 .. 16 : \A desc \in DOMAIN Descriptors : ~HasField(desc, n)

Strings == {Scalar(1)}

Int32s == {Scalar(2)}

\* the object holding the fields of c that are not None
ObjectOf(c) ==
    LinearizedObject([i \in {j \in DOMAIN c : c[j] # None} |-> c[i]])

Opt(S) == {None} \cup S

\* trees of a Simple held in the Nested field
NestedTrees ==
    {ObjectOf(1 :> a @@ 3 :> r @@ UnknownNumber :> u) :
        a \in Opt(Strings), r \in Opt(Slices(Strings)), u \in Opt(Strings)}

\* trees of a Simple held in the repeated field and in the map field
ElemTrees ==
    {ObjectOf(1 :> a @@ UnknownNumber :> u) :
        a \in Strings, u \in {None}} \cup
    {ObjectOf(1 :> a @@ UnknownNumber :> u) :
        a \in {None}, u \in Strings}

ComplexTrees ==
    {NilValue} \cup
    {ObjectOf(1 :> a @@ 2 :> b @@ 3 :> n @@ 4 :> r @@ 5 :> d
              @@ UnknownNumber :> u) :
        a \in Opt(Strings \cup Int32s), b \in Opt(Int32s),
        n \in Opt(NestedTrees), r \in Opt(Slices(ElemTrees)),
        d \in Opt(Maps(ElemTrees)), u \in Opt(Strings)}

\* a Complex whose fields are all set
PopulatedSimple ==
    Struct("Simple", 1 :> Scalar(3) @@ 2 :> Scalar(4)
                     @@ 3 :> GoSlice(0 :> Scalar(3)))

PopulatedComplex ==
    Struct("Complex", 1 :> Scalar(3) @@ 2 :> Scalar(4) @@ 3 :> PopulatedSimple
                      @@ 4 :> GoSlice(0 :> PopulatedSimple)
                      @@ 5 :> GoMap(1 :> PopulatedSimple))

Targets == {ZeroStruct("Complex"), PopulatedComplex}

\* the target after a call that failed: the fields set before the failing
\* entry was reached, in an order Go does not specify
PartlySet == [kind |-> "partly set"]

InitUnlinearize ==
    /\ pc = "unlinearize"
    /\ unlinearized \in {[data |-> t, target |-> g, message |-> g, err |-> "none"] :
                            t \in ComplexTrees, g \in Targets}
    /\ previous = None
    /\ latest = None
    /\ dres = None
    /\ mask = None
    /\ current = None
    /\ diff = None
    /\ mres = None
    /\ mres2 = None
    /\ diff2 = None
    /\ history = None
    /\ linearized = None

RunUnlinearize ==
    /\ pc = "unlinearize"
    /\ LET r == Unlinearize(unlinearized.data, unlinearized.message)
       IN  \E o \in r.outcomes :
              unlinearized' = [unlinearized EXCEPT
                                 !.err = o,
                                 !.message = IF o = "ok" THEN r.val ELSE PartlySet]
    /\ pc' = "unlinearized"
    /\ UNCHANGED <<previous, latest, dres, mask, current, diff, mres, mres2, diff2,
                   history, linearized>>

NextUnlinearize == RunUnlinearize

SpecUnlinearize == InitUnlinearize /\ [][NextUnlinearize]_vars

\* the tree value d has the shape the field descriptor fd declares for an
\* element (a scalar of its type, or a Record of its message type)
RECURSIVE FitsSchema(_, _)
FitsElem(d, kind, msg) ==
    IF kind = "message" THEN d.kind = "object" /\ FitsSchema(d, msg)
    ELSE d.kind = "scalar" /\ TypeOf(d) = kind

\* every identifier of the tree, at every level, is declared by the schema,
\* and holds a value of the declared shape
FitsSchema(tree, desc) ==
    \A i \in DOMAIN ObjMap(tree) :
        /\ HasField(desc, i)
        /\ LET fd == Descriptors[desc][i]
               d == tree.m[i]
           IN  IF fd.card = "list" THEN
                   /\ d.kind = "slice"
                   /\ DOMAIN d.m = 0 .. (Cardinality(DOMAIN d.m) - 1)
                   /\ \A j \in DOMAIN d.m : FitsElem(d.m[j], fd.kind, fd.msg)
               ELSE IF fd.card = "map" THEN
                   /\ d.kind = "map"
                   /\ \A j \in DOMAIN d.m :
                         /\ d.m[j].k.kind = "scalar"
                         /\ FitsElem(d.m[j].v, "message", ElemMessage(fd))
               ELSE FitsElem(d, fd.kind, fd.msg)

\* the Go value got holds what the tree value d says, on top of what the
\* target held before (prior)
RECURSIVE HoldsTree(_, _, _)
HoldsTree(got, d, prior) ==
    IF d.kind = "scalar" THEN got = d
    ELSE IF d.kind = "object" THEN
        /\ got.kind = "struct"
        /\ \A n \in DOMAIN got.f :
              IF n \in DOMAIN d.m
              THEN HoldsTree(got.f[n], d.m[n],
                             IF prior = Zero THEN Zero ELSE prior.f[n])
              ELSE got.f[n] = (IF prior = Zero THEN Zero ELSE prior.f[n])
    ELSE IF d.kind = "slice" THEN
        /\ got.kind = "goslice"
        /\ DOMAIN got.e = DOMAIN d.m
        /\ \A j \in DOMAIN d.m : HoldsTree(got.e[j], d.m[j], Zero)
    ELSE
        /\ got.kind = "gomap"
        /\ DOMAIN got.e = {d.m[j].k.v : j \in DOMAIN d.m}
        /\ \A j \in DOMAIN d.m : HoldsTree(got.e[d.m[j].k.v], d.m[j].v, Zero)

RECURSIVE HasUnknownIdentifier(_, _)
HasUnknownIdentifier(tree, desc) ==
    \E i \in DOMAIN ObjMap(tree) :
        \/ ~HasField(desc, i)
        \/ /\ HasField(desc, i)
           /\ LET fd == Descriptors[desc][i]
                  d == tree.m[i]
              IN  \/ /\ FieldKind(fd) = "ptr" /\ d.kind = "object"
                     /\ HasUnknownIdentifier(d, fd.msg)
                  \/ /\ fd.card = "list" /\ fd.kind = "message" /\ d.kind = "slice"
                     /\ \E j \in DOMAIN d.m :
                           /\ d.m[j].kind = "object"
                           /\ HasUnknownIdentifier(d.m[j], fd.msg)
                  \/ /\ fd.card = "map" /\ d.kind = "map"
                     /\ \E j \in DOMAIN d.m :
                           /\ d.m[j].v.kind = "object"
                           /\ HasUnknownIdentifier(d.m[j].v, ElemMessage(fd))

\* C19: Unlinearize with an unknown identifier: whenever the tree holds, at
\* the top level or inside a nested Record, a field identifier its schema
\* descriptor does not declare, Unlinearize returns a non-nil error.
C19_UnknownIdentifierIsError ==
    (pc = "unlinearized" /\ HasUnknownIdentifier(unlinearized.data, "Complex")) =>
        unlinearized.err = "error"

\* C19 witness: Unlinearize has returned an error for a tree whose only
\* undeclared identifier is inside a Record held in the map field.
C19_Witness ==
    /\ pc = "unlinearized"
    /\ unlinearized.err = "error"
    /\ unlinearized.data.kind = "object"
    /\ DOMAIN unlinearized.data.m = {5}
    /\ HasUnknownIdentifier(unlinearized.data, "Complex")

(***************************************************************************)
(* The first version of the library, src/linearize.go:10-214: a message is *)
(* a LinearizedData, the list of its field values in declaration order,   *)
(* and a mask is a list of UpdateMask, each a Single index or a Multiple   *)
(* list of masks.  Merge and applyUpdate: lines 186-214.                   *)
(***************************************************************************)
\* LinearizedData []interface{}: element i under index i
LinearizedData(e) == [kind |-> "data", e |-> e]

\* a value of the unnamed type []interface{} (the items of a repeated field,
\* lines 106-122): `x.([]interface{})` holds for it and not for a
\* LinearizedData, whose dynamic type is the named type
Items(e) == [kind |-> "items", e |-> e]

\* map[string]interface{}, the value of a map field (lines 70-97)
StringMap(m) == [kind |-> "strmap", m |-> m]

UpdateMask_Single(index) == [oneof |-> "Single", Single |-> index]

UpdateMask_Multiple(values) == [oneof |-> "Multiple", Values |-> values]

\* the generated getters: the zero value when the oneof holds the other case
GetSingle(m) == IF m.oneof = "Single" THEN m.Single ELSE 0

GetMultiple(m) == IF m.oneof = "Multiple" THEN m ELSE NilMask

len(data) == Cardinality(DOMAIN data.e)

\* `if mask.GetSingle() != 0`, line 202
SingleIsSet(m) == GetSingle(m) # 0

\* applyUpdate, lines 201-214: the merged list after the call, or a panic
RECURSIVE applyUpdate(_, _, _)
applyUpdate(merged, m, latestData) ==
    IF merged.panic THEN merged
    ELSE IF SingleIsSet(m) THEN
        LET index == GetSingle(m)
        IN  IF index >= len(merged.val) THEN merged
            ELSE IF index < 0 \/ index >= len(latestData)
            THEN [panic |-> TRUE, val |-> merged.val]
            ELSE [panic |-> FALSE,
                  val |-> LinearizedData([merged.val.e EXCEPT
                                            ![index] = latestData.e[index]])]
    ELSE IF m.oneof = "Multiple" THEN
        LET n == Len(m.Values)
            step[i \in 0 .. n] ==
                IF i = 0 THEN merged
                ELSE IF step[i - 1].panic THEN step[i - 1]
                ELSE IF (i - 1) >= len(latestData)
                        \/ latestData.e[i - 1].kind # "items"
                THEN [panic |-> TRUE, val |-> step[i - 1].val]
                ELSE applyUpdate(step[i - 1], m.Values[i], latestData.e[i - 1])
        IN  step[n]
    ELSE merged

\* Merge, lines 186-198: merged is a new list as long as latest, filled from
\* previous, to which the masks are applied in order
MergeData(updateMask, previousData, latestData) ==
    LET copied == LinearizedData(
            [i \in 0 .. (len(latestData) - 1) |->
                IF i < len(previousData) THEN previousData.e[i] ELSE NilValue])
        n == Len(updateMask)
        step[i \in 0 .. n] ==
            IF i = 0 THEN [panic |-> FALSE, val |-> copied]
            ELSE applyUpdate(step[i - 1], updateMask[i], latestData)
    IN  step[n]

\* the masks of TestMergeEdgeCases (src/linerarize_test.go:136-170): one
\* Single entry for each index at which the two lists differ, in index order
RECURSIVE SingleMasks(_, _, _)
SingleMasks(previousData, latestData, i) ==
    IF i >= len(latestData) THEN << >>
    ELSE (IF previousData.e[i] # latestData.e[i]
          THEN <<UpdateMask_Single(i)>> ELSE << >>)
         \o SingleMasks(previousData, latestData, i + 1)

\* field values of a LinearizedData: scalars, nil (an unset field) and
\* nested lists
DataValues ==
    Scalars \cup {NilValue}
            \cup {LinearizedData(0 :> x) : x \in Scalars}

DataLists ==
    {LinearizedData([i \in 0 .. (Len(q) - 1) |-> q[i + 1]]) :
        q \in SeqsUpTo(DataValues, MaxLen)}

InitData ==
    /\ pc = "data"
    /\ previous \in DataLists
    /\ latest \in {l \in DataLists : DOMAIN l.e = DOMAIN previous.e}
    /\ mask = SingleMasks(previous, latest, 0)
    /\ dres = None
    /\ current = None
    /\ diff = None
    /\ mres = None
    /\ mres2 = None
    /\ diff2 = None
    /\ history = None
    /\ linearized = None
    /\ unlinearized = None

RunMergeData ==
    /\ pc = "data"
    /\ LET r == MergeData(mask, previous, latest)
       IN  mres' = [outcome |-> IF r.panic THEN "panic" ELSE "ok", val |-> r.val]
    /\ pc' = "merged_data"
    /\ UNCHANGED <<previous, latest, dres, mask, current, diff, mres2,
                   unlinearized, diff2, history, linearized>>

NextData == RunMergeData

SpecData == InitData /\ [][NextData]_vars

\* C20: positional Merge: for previous and latest of equal length and a mask
\* holding one Single entry for each index at which they differ,
\* Merge(mask, previous, latest) equals latest, wherever the difference is,
\* from the first index to the last.
C20_PositionalMergeGivesLatest ==
    pc = "merged_data" => (mres.outcome = "ok" /\ mres.val = latest)

(***************************************************************************)
(* Diff of the first version, src/linearize.go:124-183, on two lists.      *)
(***************************************************************************)
\* isArray, lines 180-183: reflect.ValueOf(nil).Kind() is Invalid
isArray(value) == value.kind \in {"data", "items"}

\* what Diff returns, or a panic
DataDiffResult(panic, before, after, m) ==
    [panic |-> panic, before |-> before, after |-> after, mask |-> m]

DataDiffPanic == DataDiffResult(TRUE, NilValue, NilValue, << >>)

RECURSIVE DiffData(_, _)
\* one iteration of the loop of line 135
DiffDataEntry(previousData, latestData, i) ==
    LET prev == previousData.e[i]
        lat == latestData.e[i]
        same == DataDiffResult(FALSE, prev, lat, << >>)
    IN  IF isArray(lat) THEN
            IF prev.kind # "nil" /\ isArray(prev) THEN
                IF prev.kind = "items" /\ lat.kind = "items" THEN
                    LET nested == DiffData(prev, lat)
                    IN  IF nested.panic THEN DataDiffPanic
                        ELSE IF Len(nested.mask) > 0
                        THEN DataDiffResult(FALSE, nested.before, nested.after,
                                            nested.mask)
                        ELSE same
                ELSE same
            ELSE same
        ELSE
            LET eq == GoEqual(prev, lat)
            IN  IF eq = "panic" THEN DataDiffPanic
                ELSE IF eq = "ne"
                THEN DataDiffResult(FALSE, prev, lat, <<UpdateMask_Single(i)>>)
                ELSE same

DiffData(previousData, latestData) ==
    IF len(previousData) # len(latestData) THEN DataDiffPanic
    ELSE
    LET n == len(latestData)
        entry == [i \in 0 .. (n - 1) |-> DiffDataEntry(previousData, latestData, i)]
        masks[i \in 0 .. n] ==
            IF i = 0 THEN << >> ELSE masks[i - 1] \o entry[i - 1].mask
    IN  IF \E i \in 0 .. (n - 1) : entry[i].panic THEN DataDiffPanic
        ELSE DataDiffResult(FALSE,
                LinearizedData([i \in 0 .. (n - 1) |-> entry[i].before]),
                LinearizedData([i \in 0 .. (n - 1) |-> entry[i].after]),
                masks[n])

(***************************************************************************)
(* SpecDataDiff: Diff on two linearized messages of the shape              *)
(* {scalar, nested message, repeated field, map field}, where an unset     *)
(* message, an empty repeated field and an empty map are nil (lines 43-45, *)
(* 61-64, 72-75).                                                          *)
(***************************************************************************)
NestedDatas == {LinearizedData(0 :> x) : x \in Scalars}

ItemLists ==
    {Items([i \in 0 .. (Len(q) - 1) |-> q[i + 1]]) :
        q \in SeqsUpTo(Scalars, MaxLen) \ {<< >>}}
    \cup {Items(0 :> d) : d \in NestedDatas}

StringMaps ==
    {StringMap(1 :> x) : x \in Scalars}
    \cup {StringMap(1 :> Scalar(1) @@ 2 :> Scalar(1))}

MessageDatas ==
    {LinearizedData(0 :> a @@ 1 :> b @@ 2 :> c @@ 3 :> d) :
        a \in Scalars, b \in NestedDatas \cup {NilValue},
        c \in ItemLists \cup {NilValue}, d \in StringMaps \cup {NilValue}}

InitDataDiff ==
    /\ pc = "data_diff"
    /\ previous \in MessageDatas
    /\ latest \in MessageDatas
    /\ dres = None
    /\ mask = None
    /\ current = None
    /\ diff = None
    /\ mres = None
    /\ mres2 = None
    /\ diff2 = None
    /\ history = None
    /\ linearized = None
    /\ unlinearized = None

RunDiffData ==
    /\ pc = "data_diff"
    /\ dres' = DiffData(previous, latest)
    /\ pc' = "data_diffed"
    /\ UNCHANGED <<previous, latest, mask, current, diff, mres, mres2,
                   unlinearized, diff2, history, linearized>>

NextDataDiff == RunDiffData

SpecDataDiff == InitDataDiff /\ [][NextDataDiff]_vars

\* the two values are composites of one kind with the same positions or
\* keys, and differ in what they hold there
DiffersInside(a, b) ==
    /\ a # b
    /\ a.kind = b.kind
    /\ \/ a.kind \in {"data", "items"} /\ DOMAIN a.e = DOMAIN b.e
       \/ a.kind = "strmap" /\ DOMAIN a.m = DOMAIN b.m

\* previous and latest differ only inside the value at top-level index i
DiffersOnlyInside(i) ==
    /\ DiffersInside(previous.e[i], latest.e[i])
    /\ \A j \in DOMAIN previous.e \ {i} : previous.e[j] = latest.e[j]

\* C21: positional Diff: when previous and latest differ only inside the
\* value at one top-level index i (an element of a repeated field, a field
\* of a nested message, an entry of a map field), Diff returns a mask with
\* exactly one entry, whose Single is i.
C21_PositionalDiffNamesField ==
    \A i \in 0 .. 3 :
        (pc = "data_diffed" /\ DiffersOnlyInside(i)) =>
            /\ ~dres.panic
            /\ Len(dres.mask) = 1
            /\ dres.mask[1] = UpdateMask_Single(i)

(***************************************************************************)
(* The map-keyed version with list masks, src/linearize.go:377-642: a      *)
(* message is a LinearizedObject (map[int]any, kind "object" above), a     *)
(* repeated field a LinearizedArray ([]any), a map field a LinearizedMap   *)
(* (map[any]any), and a mask is a list of Single entries.  The entries     *)
(* written in a range over a Go map come in an unspecified order, so a     *)
(* mask is the bag of its entries: what the code reads of a mask is its    *)
(* length (lines 514, 524, 534) and, in Merge, each entry (line 621).      *)
(***************************************************************************)
LinearizedArray(e) == [kind |-> "array", e |-> e]

\* map[any]any whose keys have the dynamic type keyType
LinearizedAnyMap(keyType, m) == [kind |-> "anymap", keyType |-> keyType, m |-> m]

ArrayOf(q) == LinearizedArray([i \in 0 .. (Len(q) - 1) |-> q[i + 1]])

\* reflect.TypeOf(value), line 505
ReflectTypeOf(value) ==
    IF value.kind = "scalar" THEN TypeOf(value)
    ELSE IF value.kind = "anymap" THEN "anymap"
    ELSE value.kind

ListDiffResult(panic, before, after, m) ==
    [panic |-> panic, before |-> before, after |-> after, mask |-> m,
     err |-> "nil"]

ListDiffPanic == ListDiffResult(TRUE, NilValue, NilValue, EmptyBag)

\* what compareValues returns, lines 503, 545
ListCompareResult(panic, changed, before, after, m) ==
    [panic |-> panic, changed |-> changed, before |-> before,
     after |-> after, mask |-> m]

ListUnchanged == ListCompareResult(FALSE, FALSE, NilValue, NilValue, EmptyBag)

\* the entry compareValues writes for a changed leaf, line 540
LeafMask == UpdateMask_Single(0)

RECURSIVE compareValuesListMask(_, _)
\* Diff, lines 466-499
DiffListMask(previousObj, latestObj) ==
    LET prev == previousObj.m
        lat == latestObj.m
        both == DOMAIN prev \cap DOMAIN lat
        removed == DOMAIN prev \ DOMAIN lat
        added == DOMAIN lat \ DOMAIN prev
        cmp == [key \in both |-> compareValuesListMask(prev[key], lat[key])]
        chg == {key \in both : cmp[key].changed}
        keys == removed \cup added \cup chg
        before == [key \in keys |->
            IF key \in removed THEN prev[key]
            ELSE IF key \in added THEN NilValue
            ELSE cmp[key].before]
        after == [key \in keys |->
            IF key \in removed THEN NilValue
            ELSE IF key \in added THEN lat[key]
            ELSE cmp[key].after]
        nested[n \in 0 .. Cardinality(chg)] ==
            IF n = 0 THEN EmptyBag
            ELSE LET key == CHOOSE k \in chg :
                                Cardinality({j \in chg : j < k}) = n - 1
                 IN  nested[n - 1] (+) cmp[key].mask
    IN  IF \E key \in both : cmp[key].panic THEN ListDiffPanic
        ELSE ListDiffResult(FALSE, LinearizedObject(before),
                LinearizedObject(after),
                SetToBag({UpdateMask_Single(key) : key \in removed \cup added})
                    (+) nested[Cardinality(chg)])

\* DiffArray, lines 549-578
DiffArray(previousArr, latestArr) ==
    LET prevLen == Cardinality(DOMAIN previousArr.e)
        latestLen == Cardinality(DOMAIN latestArr.e)
        cmp == [i \in 0 .. (prevLen - 1) |->
                  IF i >= latestLen THEN ListUnchanged
                  ELSE compareValuesListMask(previousArr.e[i], latestArr.e[i])]
        step[i \in 0 .. prevLen] ==
            IF i = 0 THEN [before |-> << >>, after |-> << >>, mask |-> EmptyBag]
            ELSE IF i - 1 >= latestLen
            THEN [before |-> Append(step[i - 1].before, previousArr.e[i - 1]),
                  after |-> Append(step[i - 1].after, NilValue),
                  mask |-> step[i - 1].mask (+) SetToBag({UpdateMask_Single(i - 1)})]
            ELSE IF cmp[i - 1].changed
            THEN [before |-> Append(step[i - 1].before, cmp[i - 1].before),
                  after |-> Append(step[i - 1].after, cmp[i - 1].after),
                  mask |-> step[i - 1].mask (+) cmp[i - 1].mask]
            ELSE step[i - 1]
        addedAt == prevLen .. (latestLen - 1)
        addedSeq == [n \in 1 .. Cardinality(addedAt) |-> latestArr.e[prevLen + n - 1]]
    IN  IF \E i \in 0 .. (prevLen - 1) : cmp[i].panic THEN ListDiffPanic
        ELSE ListDiffResult(FALSE, ArrayOf(step[prevLen].before),
                ArrayOf(step[prevLen].after \o addedSeq),
                step[prevLen].mask
                    (+) SetToBag({UpdateMask_Single(i) : i \in addedAt}))

\* DiffMap, lines 581-614: `key.(int)` panics for a key of another type
DiffMap(previousMap, latestMap) ==
    LET prev == previousMap.m
        lat == latestMap.m
        both == DOMAIN prev \cap DOMAIN lat
        removed == DOMAIN prev \ DOMAIN lat
        added == DOMAIN lat \ DOMAIN prev
        cmp == [key \in both |-> compareValuesListMask(prev[key], lat[key])]
        chg == {key \in both : cmp[key].changed}
        keys == removed \cup added \cup chg
        before == [key \in keys |->
            IF key \in removed THEN prev[key]
            ELSE IF key \in added THEN NilValue
            ELSE cmp[key].before]
        after == [key \in keys |->
            IF key \in removed THEN NilValue
            ELSE IF key \in added THEN lat[key]
            ELSE cmp[key].after]
        nested[n \in 0 .. Cardinality(chg)] ==
            IF n = 0 THEN EmptyBag
            ELSE LET key == CHOOSE k \in chg :
                                Cardinality({j \in chg : j < k}) = n - 1
                 IN  nested[n - 1] (+) cmp[key].mask
    IN  IF \/ \E key \in both : cmp[key].panic
           \/ removed # {} /\ previousMap.keyType # "int"
           \/ added # {} /\ latestMap.keyType # "int"
        THEN ListDiffPanic
        ELSE ListDiffResult(FALSE,
                LinearizedAnyMap(previousMap.keyType, before),
                LinearizedAnyMap(latestMap.keyType, after),
                SetToBag({UpdateMask_Single(key) : key \in removed \cup added})
                    (+) nested[Cardinality(chg)])

\* compareValues, lines 503-546
compareValuesListMask(prevValue, latestValue) ==
    IF ReflectTypeOf(prevValue) # ReflectTypeOf(latestValue) THEN ListUnchanged
    ELSE IF prevValue.kind \in {"object", "array", "anymap"} THEN
        LET r == IF prevValue.kind = "object"
                 THEN DiffListMask(prevValue, latestValue)
                 ELSE IF prevValue.kind = "array"
                 THEN DiffArray(prevValue, latestValue)
                 ELSE DiffMap(prevValue, latestValue)
        IN  IF r.panic
            THEN ListCompareResult(TRUE, FALSE, NilValue, NilValue, EmptyBag)
            ELSE IF BagCardinality(r.mask) > 0
            THEN ListCompareResult(FALSE, TRUE, r.before, r.after, r.mask)
            ELSE ListUnchanged
    ELSE IF prevValue # latestValue
    THEN ListCompareResult(FALSE, TRUE, prevValue, latestValue,
                           SetToBag({LeafMask}))
    ELSE ListUnchanged

(***************************************************************************)
(* SpecListMask: Diff on two linearized Simple messages (a string field 1, *)
(* an int32 field 2, a repeated string field 3), each field present or     *)
(* not; field 3 may also hold a nested message or a map.                   *)
(***************************************************************************)
StringScalars == {Scalar(v) : v \in StringValues}

Int32Scalars == {Scalar(2), Scalar(4)}

Arrays == {ArrayOf(q) : q \in SeqsUpTo(StringScalars, MaxLen)}

AnyMaps ==
    {LinearizedAnyMap(t, f) :
        t \in {"int", "string"}, f \in PartialFns({1}, StringScalars)}

ListMaskObjects ==
    {ObjectOf(1 :> a @@ 2 :> b @@ 3 :> c) :
        a \in Opt(StringScalars), b \in Opt(Int32Scalars),
        c \in Opt(Arrays \cup AnyMaps
                  \cup {LinearizedObject(f) : f \in [{1} -> StringScalars]})}

InitListMask ==
    /\ pc = "list_diff"
    /\ previous \in ListMaskObjects
    /\ latest \in ListMaskObjects
    /\ dres = None
    /\ mask = None
    /\ current = None
    /\ diff = None
    /\ mres = None
    /\ mres2 = None
    /\ diff2 = None
    /\ history = None
    /\ linearized = None
    /\ unlinearized = None

RunDiffListMask ==
    /\ pc = "list_diff"
    /\ dres' = DiffListMask(previous, latest)
    /\ pc' = "list_diffed"
    /\ UNCHANGED <<previous, latest, mask, current, diff, mres, mres2,
                   unlinearized, diff2, history, linearized>>

NextListMask == RunDiffListMask

SpecListMask == InitListMask /\ [][NextListMask]_vars

\* the value of field k differs between previous and latest: the field was
\* added or removed, or holds a changed Scalar or a changed repeated field
FieldDiffers(k) ==
    \/ k \in DOMAIN previous.m \ DOMAIN latest.m
    \/ k \in DOMAIN latest.m \ DOMAIN previous.m
    \/ /\ k \in DOMAIN previous.m \cap DOMAIN latest.m
       /\ previous.m[k] # latest.m[k]
       /\ previous.m[k].kind = latest.m[k].kind
       /\ previous.m[k].kind \in {"scalar", "array"}

\* C22: list-mask Diff: for every top-level field number k whose value
\* differs between previous and latest (a changed Scalar, a changed repeated
\* field, an added or a removed field), the returned mask contains an entry
\* whose Single equals k.
C22_ListMaskNamesField ==
    \A k \in 1 .. 3 :
        (pc = "list_diffed" /\ FieldDiffers(k)) =>
            /\ ~dres.panic
            /\ BagIn(UpdateMask_Single(k), dres.mask)

(***************************************************************************)
(* SpecMergePair: Merge of src/unnamed/part_002 applied to one mask and    *)
(* one current with two diffs that agree wherever the mask points.         *)
(***************************************************************************)
\* what x holds in the slot key: x[key] of a Record, Sequence or Dictionary
\* (for a Dictionary entry, of the entry's value), None for no such slot
SlotAt(x, key) ==
    LET c == SlotValue(x)
    IN  IF IsComposite(c) /\ key \in DOMAIN c.m THEN c.m[key] ELSE None

\* d1 and d2 hold equal values at every slot the mask m names, following
\* nested masks down to the entries that have no nested mask
RECURSIVE AgreeOnMask(_, _, _)
AgreeOnMask(m, d1, d2) ==
    \A key \in DOMAIN m.Values :
        IF m.Values[key].Masks.isNil
        THEN SlotAt(d1, key) = SlotAt(d2, key)
        ELSE AgreeOnMask(m.Values[key].Masks, SlotAt(d1, key), SlotAt(d2, key))

\* diffs built from one scalar, with fields 1 and 2 of any shape
DiffRecords == RecordsOver({Scalar(2)})

InitMergePair ==
    /\ pc = "pair"
    /\ mask \in TopMasks
    /\ current \in RecordsOver({Scalar(1)})
    /\ diff \in DiffRecords
    /\ diff2 \in {d \in DiffRecords : AgreeOnMask(mask, diff, d)}
    /\ history = None
    /\ linearized = None
    /\ previous = None
    /\ latest = None
    /\ dres = None
    /\ mres = None
    /\ mres2 = None
    /\ unlinearized = None

\* the two calls; each result holds the ways the call can end
RunMergePair ==
    /\ pc = "pair"
    /\ mres' = Merge(mask, current, diff)
    /\ mres2' = Merge(mask, current, diff2)
    /\ pc' = "paired"
    /\ UNCHANGED <<previous, latest, dres, mask, current, diff, diff2,
                   unlinearized, history, linearized>>

NextMergePair == RunMergePair

SpecMergePair == InitMergePair /\ [][NextMergePair]_vars

\* C23: Merge does not depend on the unmasked parts of diff: for two diffs
\* that hold equal values at every slot named by the mask, the two calls
\* Merge(mask, current, d1) and Merge(mask, current, d2) end the same way
\* and return equal Records.
C23_MergeIgnoresUnmasked ==
    pc = "paired" => (mres.outcomes = mres2.outcomes /\ mres.val = mres2.val)

\* the mask m carries a nested mask at a slot where cur holds a composite
\* and dif holds a value of another kind, a Scalar or nothing, at this
\* level or at a level the nested masks lead to
RECURSIVE KindMismatch(_, _, _)
KindMismatch(m, cur, dif) ==
    \E key \in DOMAIN m.Values \cap DOMAIN cur.m :
        LET c == SlotValue(cur.m[key])
            d == SlotValue(SlotAt(dif, key))
        IN  /\ ~m.Values[key].Masks.isNil
            /\ IsComposite(c)
            /\ \/ d.kind # c.kind
               \/ KindMismatch(m.Values[key].Masks, c, d)

\* C24: a kind mismatch between current and diff is returned as an error:
\* when a mask entry carries a nested mask at a slot where current holds a
\* composite and diff holds a value of a different kind, a Scalar or
\* nothing, Merge returns a non-nil error; it neither panics nor succeeds
\* with a coerced value.
C24_KindMismatchIsError ==
    (pc = "merged" /\ KindMismatch(mask, current, diff)) =>
        mres.outcome = "error"

\* the shape of the mask m that Diff returned for the composites prev and
\* lat: at every entry, at every level, ADD and REMOVE carry no nested
\* mask, and UPDATE carries one exactly when the two values in the slot are
\* composites of one kind; a nested mask holds an operation
RECURSIVE MaskShape(_, _, _)
MaskShape(m, prev, lat) ==
    \A key \in DOMAIN m.Values :
        LET e == m.Values[key]
            p == SlotValue(SlotAt(prev, key))
            l == SlotValue(SlotAt(lat, key))
            sameComposite == IsComposite(p) /\ p.kind = l.kind
        IN  /\ e.Op # UpdateMaskOperation_UPDATE => e.Masks.isNil
            /\ e.Op = UpdateMaskOperation_UPDATE =>
                  /\ ~e.Masks.isNil <=> sameComposite
                  /\ ~e.Masks.isNil =>
                        /\ DOMAIN e.Masks.Values # {}
                        /\ sameComposite => MaskShape(e.Masks, p, l)

\* C25: nested-mask shape of Diff's output: in every mask Diff returns, at
\* every nesting level, an UPDATE entry carries a nested mask if and only
\* if the changed value is a composite of the same kind on both sides, the
\* nested mask then holds at least one operation, and ADD and REMOVE
\* entries and UPDATE entries for changed Scalars carry no nested mask.
C25_NestedMaskShape ==
    (DiffReturned /\ ~dres.mask.isNil) => MaskShape(dres.mask, previous, latest)

(***************************************************************************)
(* SpecHistory: a producer publishes the deltas of a linear history of     *)
(* snapshots, (mask, after) = Diff(A[i-1], A[i]), and a replica that       *)
(* started from A[0] applies each delta with Merge one or more times       *)
(* before the next one.  previous and latest are A[i-1] and A[i], current  *)
(* is the replica, mres the result of the last delivery and mres2 of the   *)
(* one before it.                                                          *)
(***************************************************************************)
\* the longest history, in deltas, and the most deliveries of one delta
MaxHistory == 2

MaxDeliveries == 2

\* snapshots: field 1 a Scalar, a Sequence or a Record, field 2 a Scalar
HistoryRecords ==
    {LinearizedObject(f @@ g) :
        f \in PartialFns({1}, Scalars \cup Slices(Scalars) \cup ElemObjects),
        g \in PartialFns({2}, {Scalar(1)})}

InitHistory ==
    /\ pc = "snapshot"
    /\ previous \in HistoryRecords
    /\ latest \in HistoryRecords \ {previous}
    /\ current = previous
    /\ history = [step |-> 1, delivered |-> 0]
    /\ linearized = None
    /\ dres = None
    /\ mask = None
    /\ diff = None
    /\ diff2 = None
    /\ mres = None
    /\ mres2 = None
    /\ unlinearized = None

\* the producer computes the delta of the step
Publish ==
    /\ pc = "snapshot"
    /\ LET r == Diff(previous, latest)
       IN  /\ dres' = r
           /\ pc' = IF r.panic THEN "diff_panic" ELSE "delta"
           /\ mask' = IF r.panic THEN None ELSE r.mask
           /\ diff' = IF r.panic THEN None ELSE r.after
    /\ UNCHANGED <<previous, latest, current, mres, mres2, unlinearized, diff2,
                   history, linearized>>

\* the replica applies the delta, for the first time or once more
Deliver ==
    /\ pc = "delta"
    /\ history.delivered < MaxDeliveries
    /\ LET r == Merge(mask, current, diff)
       IN  \E o \in r.outcomes :
              /\ mres' = [outcome |-> o, val |-> r.val]
              /\ current' = IF o = "ok" THEN r.val ELSE current
              /\ pc' = IF o = "ok" THEN "delta" ELSE "merge_failed"
    /\ mres2' = mres
    /\ history' = [history EXCEPT !.delivered = @ + 1]
    /\ UNCHANGED <<previous, latest, dres, mask, diff, unlinearized, diff2,
                   linearized>>

\* the next snapshot of the history, different from the one before it
Advance ==
    /\ pc = "delta"
    /\ history.delivered >= 1
    /\ history.step < MaxHistory
    /\ previous' = latest
    /\ latest' \in HistoryRecords \ {latest}
    /\ history' = [step |-> history.step + 1, delivered |-> 0]
    /\ pc' = "snapshot"
    /\ mres' = None
    /\ mres2' = None
    /\ UNCHANGED <<dres, mask, current, diff, unlinearized, diff2, linearized>>

NextHistory == Publish \/ Deliver \/ Advance

SpecHistory == InitHistory /\ [][NextHistory]_vars

\* C26: at-least-once delivery along a linear history: for snapshots A0,
\* ..., An in which consecutive ones differ, starting from A0 and applying
\* with Merge the deltas Diff(A[i-1], A[i]) in order, each one or more
\* times in a row, every Merge succeeds and, once the delta of a step has
\* been applied, the replica is equal to the snapshot of that step.
C26_AtLeastOnceDelivery ==
    (history.delivered >= 1) => (mres.outcome = "ok" /\ current = latest)

\* C27: Merge accepts the no-op result of Diff: given the nil mask and the
\* nil after that Diff returns for two identical Records, Merge(nil,
\* current, nil) returns without a runtime failure, with a nil error and a
\* Record equal to current.
C27_MergeAcceptsNoOp ==
    (pc = "merged" /\ previous = latest /\ mask = NilMask /\ diff = NilValue) =>
        (mres.outcome = "ok" /\ mres.val = current)

\* the values the two Records hold under a common identifier are of one kind
MatchingKinds(p, l) ==
    \A id \in DOMAIN p.m \cap DOMAIN l.m : p.m[id].kind = l.m[id].kind

\* C28: Diff is total on well-formed input: for every pair of Records whose
\* values at each identifier have matching kinds, also when Dictionary
\* entries hold Records under the same key in both, Diff returns normally
\* with a nil error.
C28_DiffIsTotal ==
    (pc # "start" /\ MatchingKinds(previous, latest)) =>
        (~dres.panic /\ dres.err = "nil")

\* C29: top-level delta domains: whenever Diff returns a non-nil mask, the
\* top-level before, after and mask have exactly the same set of field
\* identifiers, and an identifier whose value is the same in previous and
\* latest appears in none of the three.
C29_DeltaDomains ==
    (DiffReturned /\ ~dres.mask.isNil) =>
        /\ dres.before.kind = "object"
        /\ dres.after.kind = "object"
        /\ DOMAIN dres.before.m = DOMAIN dres.mask.Values
        /\ DOMAIN dres.after.m = DOMAIN dres.mask.Values
        /\ \A id \in DOMAIN previous.m \cap DOMAIN latest.m :
              previous.m[id] = latest.m[id] =>
                  id \notin DOMAIN dres.mask.Values

\* C29 witness: Diff has returned a mask for two Records that share an
\* unchanged composite field and differ in another field present in both.
C29_Witness ==
    /\ pc = "diffed"
    /\ ~dres.mask.isNil
    /\ \E id \in DOMAIN previous.m \cap DOMAIN latest.m :
          /\ previous.m[id] = latest.m[id]
          /\ IsComposite(previous.m[id])
    /\ \E id \in DOMAIN previous.m \cap DOMAIN latest.m :
          /\ id \in DOMAIN dres.mask.Values
          /\ id \in DOMAIN dres.before.m
          /\ id \in DOMAIN dres.after.m

(***************************************************************************)
(* The reflection-based Linearize of the first version,                    *)
(* src/linearize.go:12-122, on a graph of message objects.  A message is   *)
(* a pointer to a struct; the heap maps each pointer to its struct, here   *)
(* of a message type with a scalar field, a message field, a repeated      *)
(* message field and a map field with message values:                      *)
(*   Node { string Value; Node Nested; repeated Node Repeated;             *)
(*          map<string, Node> Map; }                                       *)
(* visited is one Go map shared by all the calls of one Linearize: every   *)
(* call gets the pointers its predecessors added and hands on its own.     *)
(***************************************************************************)
NilPtr == "nil"

Pointers == {"root", "sub"}

NodeStruct(nested, repeated, entries) ==
    [Nested |-> nested, Repeated |-> repeated, Map |-> entries]

\* what a call returns, and visited after the call
LinearizeResult(err, data, visited) ==
    [err |-> err, data |-> data, visited |-> visited]

CyclicReference(visited) == LinearizeResult("cyclic reference", NilValue, visited)

\* `visited[ptr] = struct{}{}`, line 24: the pointer stays in visited after
\* the call returns
Visit(visited, ptr) == visited \cup {ptr}

RECURSIVE linearizeWithReflection(_, _, _)
\* the message held by a field, an item or a map value, lines 50-59, 86-95,
\* 110-119
linearizePointer(heap, ptr, visited) ==
    IF ptr = NilPtr THEN LinearizeResult("nil", NilValue, visited)
    ELSE linearizeWithReflection(heap, ptr, visited)

\* handleRepeatedField, lines 106-122
handleRepeatedField(heap, items, visited) ==
    LET n == Len(items)
        step[j \in 0 .. n] ==
            IF j = 0 THEN [err |-> "nil", items |-> << >>, visited |-> visited]
            ELSE IF step[j - 1].err # "nil" THEN step[j - 1]
            ELSE LET r == linearizeWithReflection(heap, items[j],
                                                  step[j - 1].visited)
                 IN  [err |-> r.err,
                      items |-> Append(step[j - 1].items, r.data),
                      visited |-> r.visited]
    IN  IF step[n].err # "nil"
        THEN LinearizeResult(step[n].err, NilValue, step[n].visited)
        ELSE LinearizeResult("nil",
                Items([j \in 0 .. (n - 1) |-> step[n].items[j + 1]]),
                step[n].visited)

\* the map field, lines 70-97: a map of the model holds at most one entry,
\* so the order of MapKeys() plays no part
linearizeMapField(heap, entries, visited) ==
    IF DOMAIN entries = {} THEN LinearizeResult("nil", NilValue, visited)
    ELSE LET key == CHOOSE k \in DOMAIN entries : TRUE
             r == linearizePointer(heap, entries[key], visited)
         IN  IF r.err # "nil" THEN r
             ELSE LinearizeResult("nil", StringMap(key :> r.data), r.visited)

\* linearizeWithReflection, lines 17-104
linearizeWithReflection(heap, ptr, visited) ==
    IF ptr \in visited THEN CyclicReference(visited)
    ELSE
    LET node == heap[ptr]
        nested == linearizePointer(heap, node.Nested, Visit(visited, ptr))
        repeated ==
            IF Len(node.Repeated) = 0
            THEN LinearizeResult("nil", NilValue, nested.visited)
            ELSE handleRepeatedField(heap, node.Repeated, nested.visited)
        entries == linearizeMapField(heap, node.Map, repeated.visited)
    IN  IF nested.err # "nil" THEN nested
        ELSE IF repeated.err # "nil" THEN repeated
        ELSE IF entries.err # "nil" THEN entries
        ELSE LinearizeResult("nil",
                LinearizedData(0 :> Scalar(ptr) @@ 1 :> nested.data
                               @@ 2 :> repeated.data @@ 3 :> entries.data),
                entries.visited)

\* Linearize, lines 12-15
LinearizeData(heap, protoMsg) == linearizeWithReflection(heap, protoMsg, {})

(***************************************************************************)
(* SpecLinearize: Linearize of the message at "root", over every heap of    *)
(* two messages: trees, shared sub-messages and cycles.                    *)
(***************************************************************************)
NodeStructs ==
    {NodeStruct(n, r, e) :
        n \in Pointers \cup {NilPtr},
        r \in SeqsUpTo(Pointers, MaxLen),
        e \in PartialFns({"k"}, Pointers)}

Heaps == [Pointers -> NodeStructs]

InitLinearize ==
    /\ pc = "linearize"
    /\ linearized \in {[heap |-> h, err |-> "none", data |-> NilValue] :
                          h \in Heaps}
    /\ previous = None
    /\ latest = None
    /\ dres = None
    /\ mask = None
    /\ current = None
    /\ diff = None
    /\ diff2 = None
    /\ mres = None
    /\ mres2 = None
    /\ unlinearized = None
    /\ history = None

RunLinearize ==
    /\ pc = "linearize"
    /\ LET r == LinearizeData(linearized.heap, "root")
       IN  linearized' = [linearized EXCEPT !.err = r.err, !.data = r.data]
    /\ pc' = "linearized"
    /\ UNCHANGED <<previous, latest, dres, mask, current, diff, mres, mres2,
                   unlinearized, diff2, history>>

NextLinearize == RunLinearize

SpecLinearize == InitLinearize /\ [][NextLinearize]_vars

\* the messages the message at ptr refers to
Refs(heap, ptr) ==
    ({heap[ptr].Nested} \ {NilPtr})
    \cup {heap[ptr].Repeated[j] : j \in 1 .. Len(heap[ptr].Repeated)}
    \cup {heap[ptr].Map[k] : k \in DOMAIN heap[ptr].Map}

\* the messages reached from those of S in one or more steps
RECURSIVE ReachedWithin(_, _, _)
ReachedWithin(heap, S, steps) ==
    LET next == UNION {Refs(heap, p) : p \in S}
    IN  IF steps = 0 THEN {}
        ELSE next \cup ReachedWithin(heap, next, steps - 1)

Reached(heap, ptr) == ReachedWithin(heap, {ptr}, Cardinality(Pointers))

\* the graph of the message at ptr holds a cycle
HasCycle(heap, ptr) ==
    \E p \in {ptr} \cup Reached(heap, ptr) : p \in Reached(heap, p)

\* C30: cycle detection of Linearize: the 'cyclic reference detected' error
\* is returned only when the message graph really contains a cycle; a
\* message referenced from two places of an acyclic graph is linearized
\* successfully.
C30_CycleErrorOnlyForCycles ==
    (pc = "linearized" /\ linearized.err = "cyclic reference") =>
        HasCycle(linearized.heap, "root")

====
